---- MODULE Spec2Model ----
(***************************************************************************)
(* A model of weather.py: the two MCP tools get_alerts and get_forecast,   *)
(* the shared fetcher make_nws_request and the formatter format_alert.     *)
(*                                                                         *)
(* Python values (what response.json() can return, and what the tools      *)
(* compute with) are records of one shape, so that values of different     *)
(* Python types can be compared:                                           *)
(*   t : "none" | "bool" | "num" | "str" | "list" | "dict"                 *)
(*   n : the number (or 0/1 for a bool)      s : the characters of a str   *)
(*   a : the items of a list                 o : the items of a dict       *)
(* A Python expression that may raise evaluates to a record                *)
(*   [ok |-> TRUE, v |-> value] or [ok |-> FALSE, exc |-> class name].     *)
(***************************************************************************)
EXTENDS Integers, Sequences, FiniteSets, TLC

\* ------------------------------------------------------------- bounds
NumTasks == 2
MaxFeatures == 2
MaxPeriods == 6

\* ------------------------------------------------------ Python values
EmptyItems == [k \in {} |-> 0]

PyNone == [t |-> "none", n |-> 0, s |-> "", a |-> <<>>, o |-> EmptyItems]

PyBool(b) == [t |-> "bool", n |-> IF b THEN 1 ELSE 0, s |-> "", a |-> <<>>, o |-> EmptyItems]

PyNum(n) == [t |-> "num", n |-> n, s |-> "", a |-> <<>>, o |-> EmptyItems]

PyStr(s) == [t |-> "str", n |-> 0, s |-> s, a |-> <<>>, o |-> EmptyItems]

PyList(a) == [t |-> "list", n |-> 0, s |-> "", a |-> a, o |-> EmptyItems]

PyDict(o) == [t |-> "dict", n |-> 0, s |-> "", a |-> <<>>, o |-> o]

Ret(v) == [ok |-> TRUE, v |-> v, exc |-> ""]

Raise(e) == [ok |-> FALSE, v |-> PyNone, exc |-> e]

\* bool(v): None, False, 0, "", [] and {} are falsy.
Truthy(v) ==
    CASE v.t = "none" -> FALSE
      [] v.t = "bool" -> v.n = 1
      [] v.t = "num"  -> v.n # 0
      [] v.t = "str"  -> v.s # ""
      [] v.t = "list" -> v.a # <<>>
      [] v.t = "dict" -> DOMAIN v.o # {}

\* key in v, for a str key: a dict tests its keys, a list its items, a str its
\* substrings; None, a bool and a number are not containers (TypeError).
\* Of a str only the cases decided by length are computed (shorter than the
\* key, or the key itself).
Contains(key, v) ==
    CASE v.t = "dict" -> Ret(PyBool(key \in DOMAIN v.o))
      [] v.t = "list" -> Ret(PyBool(\E i \in 1..Len(v.a) : v.a[i] = PyStr(key)))
      [] v.t = "str" /\ Len(v.s) < Len(key) -> Ret(PyBool(FALSE))
      [] v.t = "str" /\ v.s = key -> Ret(PyBool(TRUE))
      [] v.t \in {"none", "bool", "num"} -> Raise("TypeError")

\* Faulty variant: v.get(key) in place of v[key]: None for a missing key.
SubscriptOrNone(v, key) ==
    IF v.t = "dict"
    THEN IF key \in DOMAIN v.o THEN Ret(v.o[key]) ELSE Ret(PyNone)
    ELSE Raise("TypeError")

\* v[key], for a str key: KeyError from a dict without the key, TypeError
\* from every other type.
Subscript(v, key) ==
    IF v.t = "dict"
    THEN IF key \in DOMAIN v.o THEN Ret(v.o[key]) ELSE Raise("KeyError")
    ELSE Raise("TypeError")

\* Faulty variant: d.get(key): the default is dropped.
DictGetNoDefault(d, key, default) ==
    IF key \in DOMAIN d.o THEN d.o[key] ELSE PyNone

\* d.get(key, default) on a dict d.
DictGet(d, key, default) ==
    IF key \in DOMAIN d.o THEN d.o[key] ELSE PyStr(default)

\* How an f-string renders a scalar: format(v, "") is str(v).
Str(v) ==
    CASE v.t = "str"  -> v.s
      [] v.t = "num"  -> ToString(v.n)
      [] v.t = "bool" -> IF v.n = 1 THEN "True" ELSE "False"
      [] v.t = "none" -> "None"

\* str(x) of a float x holding a whole number n.
FloatStr(n) == ToString(n) \o ".0"

RECURSIVE Join(_, _)
\* sep.join(strs) of a list of str: "" for no item, no separator before the
\* first item or after the last.
Join(sep, strs) ==
    IF strs = <<>> THEN ""
    ELSE IF Len(strs) = 1 THEN strs[1].s
    ELSE strs[1].s \o sep \o Join(sep, Tail(strs))

\* ----------------------------------------------------- module constants
NWS_API_BASE == "https://api.weather.gov"

USER_AGENT == "weather-app/1.0"

\* ------------------------------------------------- the upstream fetcher
\* What client.get can come to: no connection, no answer within the timeout,
\* or a response with a status code and a body that parses as JSON or not.
Exceptions == {"ConnectError", "ReadTimeout", "HTTPStatusError", "JSONDecodeError"}

\* response = await client.get(url, headers=headers, timeout=30.0)
ClientGet(out) ==
    CASE out.kind = "connect_error" -> Raise("ConnectError")
      [] out.kind = "timeout" -> Raise("ReadTimeout")
      [] out.kind = "response" -> Ret(out.body)

\* response.raise_for_status(): HTTPStatusError unless the status is 2xx.
RaiseForStatus(out) ==
    IF out.status >= 200 /\ out.status <= 299 THEN Ret(PyNone) ELSE Raise("HTTPStatusError")

\* response.json(): the parsed body, or JSONDecodeError.
Json(out) ==
    IF out.parsable THEN Ret(out.body) ELSE Raise("JSONDecodeError")

\* The body of the try block: the first statement that raises ends it.
TryBlock(out) ==
    IF ~ClientGet(out).ok THEN ClientGet(out)
    ELSE IF ~RaiseForStatus(out).ok THEN RaiseForStatus(out)
    ELSE Json(out)

\* Faulty variant: except httpx.HTTPError: a body that does not parse escapes.
CatchesHttpErrors(exc) == exc \in {"ConnectError", "ReadTimeout", "HTTPStatusError"}

\* except Exception: every class client.get, raise_for_status and json raise
\* derives from Exception.
Catches(exc) == exc \in Exceptions

\* make_nws_request, from the outcome of its one client.get: the parsed JSON,
\* or None from the except clause.
make_nws_request(out) ==
    LET r == TryBlock(out)
    IN  IF r.ok THEN r ELSE IF Catches(r.exc) THEN Ret(PyNone) ELSE r

\* Faulty variant: the client is closed on the success path only.
ClientLeftOpenOnError(c, r) == IF r.ok /\ r.v # PyNone THEN "closed" ELSE c

\* async with httpx.AsyncClient() as client: the client is closed when the
\* block is left, by return and by exception alike.
ClientOnExit(c, r) == "closed"

\* -------------------------------------------------------- format_alert
format_alert(feature) ==
    LET p == Subscript(feature, "properties")
    IN  IF ~p.ok THEN p
        ELSE IF p.v.t # "dict" THEN Raise("AttributeError")
        ELSE Ret(PyStr(
            "\nEvent: " \o Str(DictGet(p.v, "event", "Unknown"))
            \o "\nArea: " \o Str(DictGet(p.v, "areaDesc", "Unknown"))
            \o "\nSeverity: " \o Str(DictGet(p.v, "severity", "Unknown"))
            \o "\nDescription: " \o Str(DictGet(p.v, "description", "No description available"))
            \o "\nInstructions: " \o Str(DictGet(p.v, "instruction", "No specific instructions provided"))
            \o "\n"))

RECURSIVE FormatAlerts(_)
\* [format_alert(feature) for feature in features]: the strings, or the first
\* exception a format_alert raises.
FormatAlerts(features) ==
    IF features = <<>> THEN Ret(PyList(<<>>))
    ELSE LET h == format_alert(Head(features))
         IN  IF ~h.ok THEN h
             ELSE LET r == FormatAlerts(Tail(features))
                  IN  IF ~r.ok THEN r ELSE Ret(PyList(<<h.v>> \o r.v.a))

\* for x in v: a list gives its items; None, a bool and a number are not
\* iterable.
Iter(v) ==
    CASE v.t = "list" -> Ret(PyList(v.a))
      [] v.t \in {"none", "bool", "num"} -> Raise("TypeError")

\* ---------------------------------------------------------- get_alerts
AlertsUrl(state) == NWS_API_BASE \o "/alerts/active/area/" \o state

\* Faulty variant: the check for an empty features list is missing.
FeaturesEmptyUnchecked(features) == FALSE

\* if not data["features"]
FeaturesEmpty(features) == ~Truthy(features)

\* get_alerts from the value make_nws_request returned.
get_alerts(data) ==
    IF ~Truthy(data) THEN Ret(PyStr("Unable to fetch alerts or no alerts found."))
    ELSE LET c == Contains("features", data)
         IN  IF ~c.ok THEN c
             ELSE IF c.v.n = 0 THEN Ret(PyStr("Unable to fetch alerts or no alerts found."))
             ELSE LET f == Subscript(data, "features")
                  IN  IF ~f.ok THEN f
                      ELSE IF FeaturesEmpty(f.v) THEN Ret(PyStr("No active alerts for this state."))
                      ELSE LET it == Iter(f.v)
                           IN  IF ~it.ok THEN it
                               ELSE LET alerts == FormatAlerts(it.v.a)
                                    IN  IF ~alerts.ok THEN alerts
                                        ELSE Ret(PyStr(Join("\n---\n", alerts.v.a)))

\* -------------------------------------------------------- get_forecast
PointsUrl(latitude, longitude) ==
    NWS_API_BASE \o "/points/" \o FloatStr(latitude) \o "," \o FloatStr(longitude)

\* if not points_data
PointsFailed(points_data) == ~Truthy(points_data)

\* Faulty variant: the check of the second fetch is missing.
DetailFailedUnchecked(forecast_data) == FALSE

\* if not forecast_data
DetailFailed(forecast_data) == ~Truthy(forecast_data)

\* Faulty variant: the forecast URL is built, not read from the points response.
ForecastUrlBuilt(points_data) == Ret(PyStr(NWS_API_BASE \o "/gridpoints/forecast"))

\* points_data["properties"]["forecast"]
ForecastUrl(points_data) ==
    LET p == Subscript(points_data, "properties")
    IN  IF ~p.ok THEN p ELSE Subscript(p.v, "forecast")

\* Faulty variant: periods, unsliced.
AllPeriods(periods) ==
    CASE periods.t = "list" -> Ret(PyList(periods.a))
      [] periods.t \in {"none", "bool", "num"} -> Raise("TypeError")

\* periods[:5]
First5(periods) ==
    CASE periods.t = "list" ->
            Ret(PyList(SubSeq(periods.a, 1, IF Len(periods.a) < 5 THEN Len(periods.a) ELSE 5)))
      [] periods.t \in {"none", "bool", "num"} -> Raise("TypeError")

\* The f-string of one period; its fields are subscripted in this order.
FormatPeriod(period) ==
    LET name == Subscript(period, "name")
        temperature == Subscript(period, "temperature")
        temperatureUnit == Subscript(period, "temperatureUnit")
        windSpeed == Subscript(period, "windSpeed")
        windDirection == Subscript(period, "windDirection")
        detailedForecast == Subscript(period, "detailedForecast")
    IN  IF ~name.ok THEN name
        ELSE IF ~temperature.ok THEN temperature
        ELSE IF ~temperatureUnit.ok THEN temperatureUnit
        ELSE IF ~windSpeed.ok THEN windSpeed
        ELSE IF ~windDirection.ok THEN windDirection
        ELSE IF ~detailedForecast.ok THEN detailedForecast
        ELSE Ret(PyStr(
            "\n" \o Str(name.v) \o ":"
            \o "\nTemperature: " \o Str(temperature.v) \o "°" \o Str(temperatureUnit.v)
            \o "\nWind: " \o Str(windSpeed.v) \o " " \o Str(windDirection.v)
            \o "\nForecast: " \o Str(detailedForecast.v)
            \o "\n"))

RECURSIVE FormatPeriods(_)
\* The for loop: forecasts.append(forecast) per period, until one raises.
FormatPeriods(periods) ==
    IF periods = <<>> THEN Ret(PyList(<<>>))
    ELSE LET h == FormatPeriod(Head(periods))
         IN  IF ~h.ok THEN h
             ELSE LET r == FormatPeriods(Tail(periods))
                  IN  IF ~r.ok THEN r ELSE Ret(PyList(<<h.v>> \o r.v.a))

\* get_forecast from the value the second make_nws_request returned.
get_forecast_detail(forecast_data) ==
    IF DetailFailed(forecast_data) THEN Ret(PyStr("Unable to fetch detailed forecast."))
    ELSE LET p == Subscript(forecast_data, "properties")
         IN  IF ~p.ok THEN p
             ELSE LET periods == Subscript(p.v, "periods")
                  IN  IF ~periods.ok THEN periods
                      ELSE LET five == First5(periods.v)
                           IN  IF ~five.ok THEN five
                               ELSE LET forecasts == FormatPeriods(five.v.a)
                                    IN  IF ~forecasts.ok THEN forecasts
                                        ELSE Ret(PyStr(Join("\n---\n", forecasts.v.a)))

\* ------------------------------------------------------------- inputs
Tasks == 1..NumTasks

NoArgs == [state |-> "", latitude |-> 0, longitude |-> 0]

States == {"CA", "ZZ"}

Latitudes == {37}

Longitudes == {-122}

Outcome(kind, status, parsable, body) ==
    [kind |-> kind, status |-> status, parsable |-> parsable, body |-> body]

\* Transport errors, timeouts, error statuses and unparsable bodies.
Failures ==
    { Outcome("connect_error", 0, FALSE, PyNone),
      Outcome("timeout", 0, FALSE, PyNone),
      Outcome("response", 404, TRUE, PyDict("status" :> PyNum(404))),
      Outcome("response", 500, FALSE, PyNone),
      Outcome("response", 200, FALSE, PyNone) }

Ok(body) == Outcome("response", 200, TRUE, body)

\* -------------------------------------------------------------- state
VARIABLES
    pc,       \* per task: "idle", "await" (in client.get), "exit" (leaving
              \* the async with block), "done" (the tool call has ended)
    tool,     \* per task: the tool invoked, "" when idle
    args,     \* per task: the arguments of the invocation
    clients,  \* per task: the AsyncClient of each fetch so far, "open" or "closed"
    reqs,     \* per task: the GETs issued so far, each with its url and client
    recv,     \* per task: the outcomes client.get came to so far
    fetched,  \* per task: what the last make_nws_request comes to
    result    \* per task: what the tool call came to, once done

vars == <<pc, tool, args, clients, reqs, recv, fetched, result>>

Init ==
    /\ pc = [t \in Tasks |-> "idle"]
    /\ tool = [t \in Tasks |-> ""]
    /\ args = [t \in Tasks |-> NoArgs]
    /\ clients = [t \in Tasks |-> <<>>]
    /\ reqs = [t \in Tasks |-> <<>>]
    /\ recv = [t \in Tasks |-> <<>>]
    /\ fetched = [t \in Tasks |-> Ret(PyNone)]
    /\ result = [t \in Tasks |-> Ret(PyNone)]

\* Faulty variant: the fetched value is kept in a module-level global.
SharedData(t) == fetched[1]

\* data, points_data, forecast_data: what make_nws_request returned to task t,
\* a local of t's own coroutine.
Data(t) == fetched[t]

\* client.get(url, headers=headers, timeout=30.0) on the given client.
Get(url, client) ==
    [url |-> url, client |-> client, agent |-> USER_AGENT, accept |-> "application/geo+json"]

\* make_nws_request(url) up to its await: a client of its own is opened and
\* the one GET is issued on it.
Request(t, url) ==
    /\ clients' = [clients EXCEPT ![t] = Append(@, "open")]
    /\ reqs' = [reqs EXCEPT ![t] = Append(@, Get(url, Len(clients[t]) + 1))]
    /\ pc' = [pc EXCEPT ![t] = "await"]

\* The tool call ends, with a string or an exception.
Return(t, r) ==
    /\ result' = [result EXCEPT ![t] = r]
    /\ pc' = [pc EXCEPT ![t] = "done"]
    /\ reqs' = reqs

\* The clients of task t once the fetch it is in has left its async with block.
Exited(t) ==
    [clients EXCEPT ![t] = [@ EXCEPT ![Len(clients[t])] = ClientOnExit(@, Data(t))]]

CloseClient(t) == clients' = Exited(t)

\* The protocol layer dispatches get_alerts(state).
CallGetAlerts(t, state) ==
    /\ pc[t] = "idle"
    /\ tool' = [tool EXCEPT ![t] = "get_alerts"]
    /\ args' = [args EXCEPT ![t] = [NoArgs EXCEPT !.state = state]]
    /\ Request(t, PyStr(AlertsUrl(state)))
    /\ UNCHANGED <<recv, fetched, result>>

\* The protocol layer dispatches get_forecast(latitude, longitude).
CallGetForecast(t, latitude, longitude) ==
    /\ pc[t] = "idle"
    /\ tool' = [tool EXCEPT ![t] = "get_forecast"]
    /\ args' = [args EXCEPT ![t] = [NoArgs EXCEPT !.latitude = latitude, !.longitude = longitude]]
    /\ Request(t, PyStr(PointsUrl(latitude, longitude)))
    /\ UNCHANGED <<recv, fetched, result>>

\* client.get is over, with one of the given outcomes: the rest of the try
\* block and the except clause run.
Respond(t, outcomes) ==
    /\ pc[t] = "await"
    /\ \E out \in outcomes :
        /\ recv' = [recv EXCEPT ![t] = Append(@, out)]
        /\ fetched' = [fetched EXCEPT ![t] = make_nws_request(out)]
    /\ pc' = [pc EXCEPT ![t] = "exit"]
    /\ UNCHANGED <<tool, args, clients, reqs, result>>

\* get_alerts after its fetch.
ExitAlerts(t) ==
    /\ pc[t] = "exit"
    /\ tool[t] = "get_alerts"
    /\ CloseClient(t)
    /\ Return(t, IF Data(t).ok THEN get_alerts(Data(t).v) ELSE Data(t))
    /\ UNCHANGED <<tool, args, recv, fetched>>

\* get_forecast after its first fetch: it ends, or goes on to the second.
ExitPoints(t) ==
    /\ pc[t] = "exit"
    /\ tool[t] = "get_forecast"
    /\ Len(reqs[t]) = 1
    /\ LET closed == Exited(t)
           url == ForecastUrl(Data(t).v)
       IN  IF ~Data(t).ok
           THEN CloseClient(t) /\ Return(t, Data(t))
           ELSE IF PointsFailed(Data(t).v)
           THEN CloseClient(t)
                /\ Return(t, Ret(PyStr("Unable to fetch forecast data for this location.")))
           ELSE IF ~url.ok
           THEN CloseClient(t) /\ Return(t, url)
           ELSE /\ clients' = [closed EXCEPT ![t] = Append(@, "open")]
                /\ reqs' = [reqs EXCEPT ![t] = Append(@, Get(url.v, Len(closed[t]) + 1))]
                /\ pc' = [pc EXCEPT ![t] = "await"]
                /\ result' = result
    /\ UNCHANGED <<tool, args, recv, fetched>>

\* get_forecast after its second fetch.
ExitDetail(t) ==
    /\ pc[t] = "exit"
    /\ tool[t] = "get_forecast"
    /\ Len(reqs[t]) = 2
    /\ CloseClient(t)
    /\ Return(t, IF Data(t).ok THEN get_forecast_detail(Data(t).v) ELSE Data(t))
    /\ UNCHANGED <<tool, args, recv, fetched>>

\* The protocol layer has the result; the invocation's frame is gone.
Finish(t) ==
    /\ pc[t] = "done"
    /\ pc' = [pc EXCEPT ![t] = "idle"]
    /\ tool' = [tool EXCEPT ![t] = ""]
    /\ args' = [args EXCEPT ![t] = NoArgs]
    /\ clients' = [clients EXCEPT ![t] = <<>>]
    /\ reqs' = [reqs EXCEPT ![t] = <<>>]
    /\ recv' = [recv EXCEPT ![t] = <<>>]
    /\ fetched' = [fetched EXCEPT ![t] = Ret(PyNone)]
    /\ result' = [result EXCEPT ![t] = Ret(PyNone)]

\* --------------------------------------------------- upstream responses
AlertFields == {"event", "areaDesc", "severity", "description", "instruction"}

FieldValue(f) ==
    CASE f = "event" -> PyStr("Flood Warning")
      [] f = "areaDesc" -> PyStr("Marin; Sonoma")
      [] f = "severity" -> PyStr("Severe")
      [] f = "description" -> PyStr("River rising.")
      [] f = "instruction" -> PyStr("Move to higher ground.")

\* An alert feature whose properties hold exactly the fields of S.
Feature(S) ==
    PyDict("type" :> PyStr("Feature") @@ "properties" :> PyDict([f \in S |-> FieldValue(f)]))

\* Features with every field a str or absent: none, one, all but one or all
\* of the five fields.
WellFormedFeatures ==
    { Feature(S) : S \in {S \in SUBSET AlertFields : Cardinality(S) \in {0, 1, 4, 5}} }

\* Features the data model does not promise: a null field, properties that
\* are no object, no properties at all.
OtherFeatures ==
    { PyDict("properties" :> PyDict("event" :> PyStr("Frost Advisory") @@ "instruction" :> PyNone)),
      PyDict("properties" :> PyNone),
      PyDict("type" :> PyStr("Feature")) }

Seqs(S, n) == UNION { [1..k -> S] : k \in 0..n }

FeatureCollection(features) ==
    PyDict("type" :> PyStr("FeatureCollection") @@ "features" :> PyList(features))

\* JSON values that are no feature collection, points or forecast document.
OddBodies ==
    { PyDict(EmptyItems), PyDict("title" :> PyStr("Not Found")), PyDict("properties" :> PyDict(EmptyItems)),
      PyDict("properties" :> PyNone), PyDict("features" :> PyNone), PyDict("features" :> PyNum(3)),
      PyList(<<>>), PyList(<<PyNum(1)>>), PyList(<<PyStr("features")>>),
      PyNum(0), PyNum(7), PyBool(FALSE), PyBool(TRUE), PyNone,
      PyStr(""), PyStr("error"), PyStr("features") }

AlertBodies ==
    { FeatureCollection(fs) : fs \in Seqs(WellFormedFeatures \cup OtherFeatures, MaxFeatures) }

ForecastUrls ==
    { "https://api.weather.gov/gridpoints/MTR/85,105/forecast",
      "https://api.weather.gov/gridpoints/OKX/33,35/forecast" }

Points(u) == PyDict("id" :> PyStr("point") @@ "properties" :> PyDict("forecast" :> PyStr(u) @@ "cwa" :> PyStr("MTR")))

PointsBodies == { Points(u) : u \in ForecastUrls }

PeriodFields ==
    {"name", "temperature", "temperatureUnit", "windSpeed", "windDirection", "detailedForecast"}

Tonight ==
    "name" :> PyStr("Tonight") @@ "temperature" :> PyNum(52) @@ "temperatureUnit" :> PyStr("F")
    @@ "windSpeed" :> PyStr("5 mph") @@ "windDirection" :> PyStr("NW")
    @@ "detailedForecast" :> PyStr("Clear.")

Monday ==
    "name" :> PyStr("Monday") @@ "temperature" :> PyNum(-3) @@ "temperatureUnit" :> PyStr("C")
    @@ "windSpeed" :> PyStr("10 to 15 mph") @@ "windDirection" :> PyStr("S")
    @@ "detailedForecast" :> PyStr("Rain likely.")

WellFormedPeriods == { PyDict(Tonight), PyDict(Monday) }

\* A period without field f.
PeriodWithout(f) == PyDict([g \in PeriodFields \ {f} |-> Tonight[g]])

\* Lists of well-formed periods, and the same with one period, anywhere in
\* the list, lacking one required field.
PeriodLists ==
    LET good == Seqs(WellFormedPeriods, MaxPeriods)
    IN  good \cup { [ps EXCEPT ![i] = PeriodWithout(f)] :
                        <<ps, i, f>> \in { x \in good \X (1..MaxPeriods) \X PeriodFields : x[2] <= Len(x[1]) } }

Forecast(periods) ==
    PyDict("properties" :> PyDict("units" :> PyStr("us") @@ "periods" :> PyList(periods)))

DetailBodies ==
    { Forecast(ps) : ps \in PeriodLists }
    \cup { PyDict("properties" :> PyDict("periods" :> PyNone)),
           PyDict("properties" :> PyDict("periods" :> PyNum(5))) }

\* What the upstream may answer to the request task t awaits.
Answers(t) ==
    Failures \cup
    { Ok(b) : b \in OddBodies \cup
        (IF tool[t] = "get_alerts" THEN AlertBodies
         ELSE IF Len(reqs[t]) = 1 THEN PointsBodies
         ELSE DetailBodies) }

\* Fewer answers, for runs of several tasks at once.
FewAnswers(t) ==
    Failures \cup
    { Ok(PyDict(EmptyItems)), Ok(PyNum(7)),
      Ok(IF tool[t] = "get_alerts" THEN FeatureCollection(<<Feature({"event"}), Feature(AlertFields)>>)
         ELSE IF Len(reqs[t]) = 1 THEN Points("https://api.weather.gov/gridpoints/MTR/85,105/forecast")
         ELSE Forecast(<<PyDict(Tonight), PyDict(Monday)>>)) }

\* ------------------------------------------------------ specifications
\* Tool calls of several tasks, interleaved at their awaits.
Next ==
    \E t \in Tasks :
        \/ \E state \in States : CallGetAlerts(t, state)
        \/ \E latitude \in Latitudes, longitude \in Longitudes : CallGetForecast(t, latitude, longitude)
        \/ Respond(t, FewAnswers(t))
        \/ ExitAlerts(t)
        \/ ExitPoints(t)
        \/ ExitDetail(t)
        \/ Finish(t)

Spec == Init /\ [][Next]_vars

\* Tool calls one after the other, over every answer of the upstream.
NextSeq ==
    \/ \E state \in States : CallGetAlerts(1, state)
    \/ \E latitude \in Latitudes, longitude \in Longitudes : CallGetForecast(1, latitude, longitude)
    \/ Respond(1, Answers(1))
    \/ ExitAlerts(1)
    \/ ExitPoints(1)
    \/ ExitDetail(1)
    \/ Finish(1)

SpecSeq == Init /\ [][NextSeq]_vars

\* --------------------------------------------- vocabulary of the claims
\* The fetch came to no parsed JSON: transport error, timeout, a status that
\* is not 2xx, or a body that does not parse.
Unavailable(out) ==
    \/ out.kind \in {"connect_error", "timeout"}
    \/ out.status \notin 200..299
    \/ ~out.parsable

HasField(v, key) == v.t = "dict" /\ key \in DOMAIN v.o

\* v.k1.k2 exists.
HasPath(v, k1, k2) == HasField(v, k1) /\ HasField(v.o[k1], k2)

\* null, false, 0, "", [] or {}.
EmptyValue(v) ==
    v \in {PyNone, PyBool(FALSE), PyNum(0), PyStr(""), PyList(<<>>), PyDict(EmptyItems)}

Text(s) == Ret(PyStr(s))

Done(t, name) == pc[t] = "done" /\ tool[t] = name

RECURSIVE Flat(_)
Flat(chunks) == IF chunks = <<>> THEN "" ELSE Head(chunks) \o Flat(Tail(chunks))

AlertFieldOrder == <<"event", "areaDesc", "severity", "description", "instruction">>

AlertLabels == <<"\nEvent: ", "\nArea: ", "\nSeverity: ", "\nDescription: ", "\nInstructions: ">>

AlertDefaults ==
    <<"Unknown", "Unknown", "Unknown", "No description available", "No specific instructions provided">>

\* An object with a properties object whose five fields are each a str or absent.
IsAlertFeature(f) ==
    /\ HasField(f, "properties")
    /\ f.o["properties"].t = "dict"
    /\ \A k \in AlertFields : HasField(f.o["properties"], k) => f.o["properties"].o[k].t = "str"

\* The text of N features, piece by piece: 12 pieces per feature (five labels,
\* five values, the closing newline, the separator), no separator at the end.
AlertsText(features) ==
    Flat([j \in 1..(12 * Len(features) - 1) |->
        LET props == features[(j - 1) \div 12 + 1].o["properties"]
            r == (j - 1) % 12
            k == r \div 2 + 1
        IN  IF r = 11 THEN "\n---\n"
            ELSE IF r = 10 THEN "\n"
            ELSE IF r % 2 = 0 THEN AlertLabels[k]
            ELSE IF HasField(props, AlertFieldOrder[k]) THEN props.o[AlertFieldOrder[k]].s
            ELSE AlertDefaults[k]])

\* An object with the six required fields, the temperature a number.
IsPeriod(p) ==
    /\ \A k \in PeriodFields : HasField(p, k)
    /\ p.o["temperature"].t = "num"
    /\ \A k \in PeriodFields \ {"temperature"} : p.o[k].t = "str"

Min(a, b) == IF a < b THEN a ELSE b

\* The text of the first n periods, piece by piece: 13 pieces per period.
PeriodsText(periods, n) ==
    Flat([j \in 1..(13 * n - 1) |->
        LET p == periods[(j - 1) \div 13 + 1].o
            r == (j - 1) % 13
        IN  CASE r = 0 -> "\n"
              [] r = 1 -> p["name"].s
              [] r = 2 -> ":"
              [] r = 3 -> "\nTemperature: "
              [] r = 4 -> ToString(p["temperature"].n)
              [] r = 5 -> "°"
              [] r = 6 -> p["temperatureUnit"].s
              [] r = 7 -> "\nWind: "
              [] r = 8 -> p["windSpeed"].s \o " " \o p["windDirection"].s
              [] r = 9 -> "\nForecast: "
              [] r = 10 -> p["detailedForecast"].s
              [] r = 11 -> "\n"
              [] r = 12 -> "\n---\n"])

\* ------------------------------------------------------------- claims
\* C1: get_alerts returns exactly "Unable to fetch alerts or no alerts found."
\* and does not raise, whenever its fetch is Unavailable or comes to a parsed
\* JSON value that has no features field.
C1_AlertsFallback ==
    \A t \in Tasks :
        Done(t, "get_alerts")
        /\ (Unavailable(recv[t][1]) \/ ~HasField(recv[t][1].body, "features"))
        => result[t] = Text("Unable to fetch alerts or no alerts found.")

\* C2: get_forecast names the stage that failed and does not raise: an
\* Unavailable points fetch gives "Unable to fetch forecast data for this
\* location."; a points response with a properties.forecast URL followed by an
\* Unavailable detail fetch gives "Unable to fetch detailed forecast.".
C2_StageMessages ==
    \A t \in Tasks :
        Done(t, "get_forecast") =>
            /\ Unavailable(recv[t][1])
               => result[t] = Text("Unable to fetch forecast data for this location.")
            /\ ~Unavailable(recv[t][1])
               /\ HasPath(recv[t][1].body, "properties", "forecast")
               /\ Len(recv[t]) = 2
               /\ Unavailable(recv[t][2])
               => result[t] = Text("Unable to fetch detailed forecast.")

C2_Witness ==
    \E t \in Tasks :
        /\ Done(t, "get_forecast")
        /\ Len(recv[t]) = 2
        /\ ~Unavailable(recv[t][1])
        /\ recv[t][2].kind = "timeout"
        /\ result[t] = Text("Unable to fetch detailed forecast.")

\* The response that decides how a finished get_forecast ended lacks what the
\* code requires of it: properties.forecast in the points response,
\* properties.periods in the detail response, or a required field in one of
\* the (at most five) periods formatted.
LacksRequired(t) ==
    LET points == recv[t][1].body
        detail == recv[t][2].body
    IN  \/ ~HasPath(points, "properties", "forecast")
        \/ /\ Len(recv[t]) = 2
           /\ \/ ~HasPath(detail, "properties", "periods")
              \/ /\ detail.o["properties"].o["periods"].t = "list"
                 /\ \E i \in 1..Min(5, Len(detail.o["properties"].o["periods"].a)) :
                        \E k \in PeriodFields :
                            ~HasField(detail.o["properties"].o["periods"].a[i], k)

\* C3 as stated: whenever every fetch of a get_forecast call returned a parsed
\* JSON value (not None) but a required field is missing, the call returns no
\* string: the failure propagates.
C3_DefectsPropagate ==
    \A t \in Tasks :
        Done(t, "get_forecast")
        /\ (\A i \in 1..Len(recv[t]) : ~Unavailable(recv[t][i]) /\ recv[t][i].body # PyNone)
        /\ LacksRequired(t)
        => ~result[t].ok

\* C3, amended: the failure propagates whenever every fetch returned a parsed
\* JSON value that is not empty (null, false, 0, "", [], {}); a fetch that
\* returns an empty value is handled like Unavailable, with the stage's message.
C3_NonEmptyDefectsPropagate ==
    \A t \in Tasks :
        Done(t, "get_forecast") /\ (\A i \in 1..Len(recv[t]) : ~Unavailable(recv[t][i]))
        => /\ (\A i \in 1..Len(recv[t]) : ~EmptyValue(recv[t][i].body)) /\ LacksRequired(t)
              => ~result[t].ok /\ result[t].exc \in {"KeyError", "TypeError"}
           /\ EmptyValue(recv[t][1].body)
              => result[t] = Text("Unable to fetch forecast data for this location.")
           /\ Len(recv[t]) = 2 /\ EmptyValue(recv[t][2].body)
              => result[t] = Text("Unable to fetch detailed forecast.")

C3_Witness ==
    \E t \in Tasks :
        /\ Done(t, "get_forecast")
        /\ Len(recv[t]) = 2
        /\ \A i \in 1..2 : ~Unavailable(recv[t][i]) /\ ~EmptyValue(recv[t][i].body)
        /\ HasPath(recv[t][2].body, "properties", "periods")
        /\ LacksRequired(t)
        /\ result[t] = Raise("KeyError")

\* C4: for N >= 1 alert features, each with a properties object whose five
\* fields are a str or absent, get_alerts returns the N blocks in input order
\* joined by "\n---\n", each with the five labelled lines in the fixed order
\* and an absent field replaced by its default; it does not raise.
C4_AlertBlocks ==
    \A t \in Tasks :
        LET body == recv[t][1].body
        IN  Done(t, "get_alerts")
            /\ ~Unavailable(recv[t][1])
            /\ HasField(body, "features")
            /\ body.o["features"].t = "list"
            /\ Len(body.o["features"].a) >= 1
            /\ (\A i \in 1..Len(body.o["features"].a) : IsAlertFeature(body.o["features"].a[i]))
            => result[t] = Text(AlertsText(body.o["features"].a))

C4_Witness ==
    \E t \in Tasks :
        /\ Done(t, "get_alerts")
        /\ ~Unavailable(recv[t][1])
        /\ recv[t][1].body = FeatureCollection(<<Feature({"severity"}), Feature(AlertFields \ {"areaDesc"})>>)
        /\ result[t].ok

\* C5: for a forecast chain that succeeds, with K periods of which the first
\* min(K, 5) are well formed, get_forecast returns exactly those min(K, 5)
\* blocks in input order joined by "\n---\n": no padding, no error for K < 5
\* (the empty string for K = 0), and nothing of the periods after the fifth.
C5_FirstFivePeriods ==
    \A t \in Tasks :
        LET detail == recv[t][2].body
            periods == detail.o["properties"].o["periods"].a
        IN  Done(t, "get_forecast")
            /\ Len(recv[t]) = 2
            /\ ~Unavailable(recv[t][1])
            /\ ~Unavailable(recv[t][2])
            /\ HasPath(detail, "properties", "periods")
            /\ detail.o["properties"].o["periods"].t = "list"
            /\ (\A i \in 1..Min(5, Len(periods)) : IsPeriod(periods[i]))
            => result[t] = Text(PeriodsText(periods, Min(5, Len(periods))))

C5_Witness ==
    \E t \in Tasks :
        /\ Done(t, "get_forecast")
        /\ Len(recv[t]) = 2
        /\ ~Unavailable(recv[t][2])
        /\ HasPath(recv[t][2].body, "properties", "periods")
        /\ recv[t][2].body.o["properties"].o["periods"].t = "list"
        /\ Len(recv[t][2].body.o["properties"].o["periods"].a) > 5
        /\ result[t].ok

\* C6: for an alerts response fetched successfully whose features field is an
\* empty sequence, get_alerts returns exactly "No active alerts for this state.".
C6_NoActiveAlerts ==
    \A t \in Tasks :
        Done(t, "get_alerts")
        /\ ~Unavailable(recv[t][1])
        /\ HasField(recv[t][1].body, "features")
        /\ recv[t][1].body.o["features"] = PyList(<<>>)
        => result[t] = Text("No active alerts for this state.")

C6_Witness ==
    \E t \in Tasks :
        /\ Done(t, "get_alerts")
        /\ recv[t][1] = Ok(FeatureCollection(<<>>))
        /\ result[t].ok

\* C7: invocations share no state: two finished invocations of the same tool
\* with the same arguments and the same upstream responses have the same
\* result, whatever ran before them or runs beside them.
C7_NoHiddenState ==
    \A t, u \in Tasks :
        pc[t] = "done" /\ pc[u] = "done"
        /\ tool[t] = tool[u] /\ args[t] = args[u] /\ recv[t] = recv[u]
        => result[t] = result[u]

C7_Witness ==
    \E t, u \in Tasks :
        /\ t # u
        /\ Done(t, "get_forecast") /\ Done(u, "get_forecast")
        /\ args[t] = args[u] /\ recv[t] = recv[u]
        /\ Len(recv[t]) = 2
        /\ result[t].ok /\ result[t] = result[u]

\* C8: make_nws_request lets no exception escape: a transport error, a
\* timeout, a status that is not 2xx and a body that does not parse all come
\* to None, and the parsed JSON is returned only for a 2xx response with a
\* body that parses.
C8_FetcherNeverRaises ==
    \A t \in Tasks :
        pc[t] = "exit" =>
            LET out == recv[t][Len(recv[t])]
            IN  /\ fetched[t].ok
                /\ Unavailable(out) => fetched[t].v = PyNone
                /\ ~Unavailable(out) => fetched[t].v = out.body

C8_Witness ==
    \E t \in Tasks :
        /\ pc[t] = "exit"
        /\ recv[t][Len(recv[t])] = Outcome("response", 200, FALSE, PyNone)
        /\ fetched[t] = Ret(PyNone)

\* C9: every fetch issues exactly one GET, on a client of its own, and is
\* never retried; get_alerts issues one request; get_forecast issues at most
\* two, the second only once the first has come to a parsed response, to the
\* properties.forecast URL of that response, and none after an Unavailable first.
C9_RequestOrder ==
    \A t \in Tasks :
        /\ Len(reqs[t]) = Len(clients[t])
        /\ Len(recv[t]) = Len(reqs[t]) - (IF pc[t] = "await" THEN 1 ELSE 0)
        /\ pc[t] # "idle" /\ tool[t] = "get_alerts" => Len(reqs[t]) = 1
        /\ pc[t] # "idle" /\ tool[t] = "get_forecast" => Len(reqs[t]) \in {1, 2}
        /\ Len(reqs[t]) = 2 =>
            /\ Len(recv[t]) >= 1
            /\ ~Unavailable(recv[t][1])
            /\ HasPath(recv[t][1].body, "properties", "forecast")
            /\ reqs[t][2].url = recv[t][1].body.o["properties"].o["forecast"]
        /\ Len(recv[t]) >= 1 /\ Unavailable(recv[t][1]) => Len(reqs[t]) = 1

C9_Witness ==
    \E t \in Tasks :
        /\ Done(t, "get_forecast")
        /\ Len(reqs[t]) = 2
        /\ reqs[t][2].url = PyStr("https://api.weather.gov/gridpoints/MTR/85,105/forecast")

\* C10: every fetch has a client of its own, closed on every way out: only
\* the fetch a task is in holds an open client, and once a tool call has
\* finished, with a result or a failure, no client of it is open.
C10_ClientsReleased ==
    \A t \in Tasks :
        /\ \A i \in 1..Len(clients[t]) :
               clients[t][i] = "open" => i = Len(clients[t]) /\ pc[t] \in {"await", "exit"}
        /\ \A i \in 1..Len(reqs[t]) : reqs[t][i].client = i

C10_Witness ==
    \E t \in Tasks :
        /\ Done(t, "get_forecast")
        /\ clients[t] = <<"closed", "closed">>
        /\ Unavailable(recv[t][2])
        /\ \E u \in Tasks : u # t /\ pc[u] = "await" /\ clients[u] = <<"open">>

====
